---- MODULE Spec2Model ----
(***************************************************************************)
(* A model of src/main.py: the layout-based PDF outline extractor.         *)
(*                                                                         *)
(* Texts are sequences of one-character strings, so that the regular       *)
(* expressions of the source are computed character by character.         *)
(* Font sizes are integers in tenths of a point (the source rounds every   *)
(* size to one decimal), so that "defined_size - 0.5" is "defined - 5".    *)
(***************************************************************************)
EXTENDS Integers, Sequences, FiniteSets, TLC

VARIABLES
    \* ---- clean_text applied to a string, then to its own output
    cleanPc, cleanIn, cleanOnce, cleanTwice,
    \* ---- extract_outline_from_pdf, from the sorted heading candidates on
    pc,                             \* position in the function
    title,                          \* the resolved title
    potential_headings_with_sizes,  \* accepted lines, sorted (line 460)
    h_level_map,                    \* font size -> "H1" | "H2" | "H3"
    idx,                            \* next candidate of the assembly loop
    outline,                        \* the entries kept so far
    seen_headings_tracker,          \* {<<normalized text, page, level>>}
    last_added_heading_level_val,
    result,                         \* the returned record
    \* ---- the title resolution of extract_outline_from_pdf
    titlePc, doc_page_count, visual_text, metadata_title, first_page_lines,
    visual_title_candidate, resolved_title,
    consulted,                      \* the sources the code went to
    \* ---- main's loop over the documents
    batchPc, pdf_files, pdf_idx,
    step,                           \* position in the try block
    cur_title, cur_outline,         \* the locals title and outline
    fn_result,                      \* what extract_outline_from_pdf returned
    written,                        \* the records written, in file order
    failed_at,                      \* per document: the step that raised, or 0
    \* ---- the document as opened, and the two passes over its lines
    toc,                            \* the document's built-in bookmark list
    pages,                          \* per page, the lines in document order
    linePc,                         \* position in the passes over the lines
    cur_page_num,                   \* the page loops' position
    header_footer_candidates,       \* line text -> occurrences in the margins
    header_footer_patterns,         \* the recorded suppression patterns
    avg_body_font_size              \* tenths of a point

cleanVars == <<cleanPc, cleanIn, cleanOnce, cleanTwice>>
titleVars == <<titlePc, doc_page_count, visual_text, metadata_title,
               first_page_lines, visual_title_candidate, resolved_title, consulted>>
batchVars == <<batchPc, pdf_files, pdf_idx, step, cur_title, cur_outline,
               fn_result, written, failed_at>>
docVars == <<toc, pages, linePc, cur_page_num, header_footer_candidates,
             header_footer_patterns, avg_body_font_size>>
outlineVars == <<pc, title, potential_headings_with_sizes, h_level_map, idx,
                 outline, seen_headings_tracker, last_added_heading_level_val,
                 result>>

----------------------------------------------------------------------------
\* Character classes of Python's re on ASCII text.

LowerChars == {"a","b","c","d","e","f","g","h","i","j","k","l","m",
               "n","o","p","q","r","s","t","u","v","w","x","y","z"}
UpperChars == {"A","B","C","D","E","F","G","H","I","J","K","L","M",
               "N","O","P","Q","R","S","T","U","V","W","X","Y","Z"}
DigitChars == {"0","1","2","3","4","5","6","7","8","9"}
SpaceChars == {" ", "\n", "\t"}
AlphaChars == LowerChars \cup UpperChars
AlnumChars == AlphaChars \cup DigitChars
WordChars  == AlnumChars \cup {"_"}

SetMax(S) == CHOOSE x \in S : \A y \in S : y <= x
SetMin(S) == CHOOSE x \in S : \A y \in S : x <= y

\* The last index k >= i-1 such that s[i..k] lies in the class C (a greedy X+ / X*).
RunEnd(s, i, C) ==
    LET ks == {k \in i..Len(s) : \A j \in i..k : s[j] \in C}
    IN  IF ks = {} THEN i - 1 ELSE SetMax(ks)

RECURSIVE LStrip(_)
LStrip(s) == IF s # <<>> /\ Head(s) \in SpaceChars THEN LStrip(Tail(s)) ELSE s

RECURSIVE RStrip(_)
RStrip(s) ==
    IF s # <<>> /\ s[Len(s)] \in SpaceChars
    THEN RStrip(SubSeq(s, 1, Len(s) - 1)) ELSE s

\* str.strip()
Strip(s) == RStrip(LStrip(s))

\* re.sub(r'\s{2,}', ' ', text)
RECURSIVE CollapseSpaces(_, _)
CollapseSpaces(s, i) ==
    IF i > Len(s) THEN <<>>
    ELSE LET k == RunEnd(s, i, SpaceChars)
         IN  IF k >= i + 1
             THEN <<" ">> \o CollapseSpaces(s, k + 1)
             ELSE <<s[i]>> \o CollapseSpaces(s, i + 1)

\* re.sub(r'(\w)-\s*(\w)', r'\1\2', text): matches do not overlap, the
\* second \w of a match is consumed and cannot open the next match.
RECURSIVE JoinHyphens(_, _)
JoinHyphens(s, i) ==
    IF i > Len(s) THEN <<>>
    ELSE LET k == RunEnd(s, i + 2, SpaceChars) + 1
         IN  IF /\ s[i] \in WordChars
                /\ i + 1 <= Len(s) /\ s[i + 1] = "-"
                /\ k <= Len(s) /\ s[k] \in WordChars
             THEN <<s[i], s[k]>> \o JoinHyphens(s, k + 1)
             ELSE <<s[i]>> \o JoinHyphens(s, i + 1)

\* text.replace('\n', ' ')
ReplaceNewlines(s) == [i \in 1..Len(s) |-> IF s[i] = "\n" THEN " " ELSE s[i]]

\* re.sub(r'\b([A-Z])\s+([A-Za-z]+)\b', r'\1\2', text)
RECURSIVE JoinSingleCapital(_, _)
JoinSingleCapital(s, i) ==
    IF i > Len(s) THEN <<>>
    ELSE LET j == RunEnd(s, i + 1, SpaceChars)      \* end of \s+
             k == RunEnd(s, j + 1, AlphaChars)      \* end of [A-Za-z]+
         IN  IF /\ s[i] \in UpperChars
                /\ (i = 1 \/ s[i - 1] \notin WordChars)
                /\ j >= i + 1
                /\ k >= j + 1
                /\ (k = Len(s) \/ s[k + 1] \notin WordChars)
             THEN <<s[i]>> \o SubSeq(s, j + 1, k) \o JoinSingleCapital(s, k + 1)
             ELSE <<s[i]>> \o JoinSingleCapital(s, i + 1)

\* re.sub(r'([a-z])([A-Z][a-z]+)', r'\1 \2', text)
RECURSIVE SplitConcatenated(_, _)
SplitConcatenated(s, i) ==
    IF i > Len(s) THEN <<>>
    ELSE LET k == RunEnd(s, i + 2, LowerChars)
         IN  IF /\ s[i] \in LowerChars
                /\ i + 1 <= Len(s) /\ s[i + 1] \in UpperChars
                /\ k >= i + 2
             THEN <<s[i], " ">> \o SubSeq(s, i + 1, k) \o SplitConcatenated(s, k + 1)
             ELSE <<s[i]>> \o SplitConcatenated(s, i + 1)

\* re.sub(r'([.!?])([A-Z])', r'\1 \2', text)
RECURSIVE SpaceAfterPunct(_, _)
SpaceAfterPunct(s, i) ==
    IF i > Len(s) THEN <<>>
    ELSE IF /\ s[i] \in {".", "!", "?"}
            /\ i + 1 <= Len(s) /\ s[i + 1] \in UpperChars
         THEN <<s[i], " ", s[i + 1]>> \o SpaceAfterPunct(s, i + 2)
         ELSE <<s[i]>> \o SpaceAfterPunct(s, i + 1)

\* re.sub(r'(.)\1{2,}', r'\1\1', text): '.' does not match a newline
RECURSIVE CollapseRepeats(_, _)
CollapseRepeats(s, i) ==
    IF i > Len(s) THEN <<>>
    ELSE LET k == RunEnd(s, i, {s[i]})
         IN  IF s[i] # "\n" /\ k >= i + 2
             THEN <<s[i], s[i]>> \o CollapseRepeats(s, k + 1)
             ELSE <<s[i]>> \o CollapseRepeats(s, i + 1)

\* re.sub(r'\s+\d+$', '', text): the leftmost i from which the rest of the
\* text is whitespace then digits up to the end; only that one run is cut.
StripTrailingNumber(s) ==
    LET starts == {i \in 1..Len(s) :
                     LET j == RunEnd(s, i, SpaceChars)
                         k == RunEnd(s, j + 1, DigitChars)
                     IN  j >= i /\ k >= j + 1 /\ k = Len(s)}
    IN  IF starts = {} THEN s ELSE SubSeq(s, 1, SetMin(starts) - 1)

clean_text(text) ==
    LET t1 == Strip(text)
        t2 == CollapseSpaces(t1, 1)
        t3 == JoinHyphens(t2, 1)
        t4 == ReplaceNewlines(t3)
        t5 == JoinSingleCapital(t4, 1)
        t6 == SplitConcatenated(t5, 1)
        t7 == SpaceAfterPunct(t6, 1)
        t8 == CollapseRepeats(t7, 1)
    IN  Strip(StripTrailingNumber(t8))

----------------------------------------------------------------------------
\* is_garbled_text and filter_title_candidate.

\* the characters of s that do not lie in C, in order
RECURSIVE Drop(_, _)
Drop(s, C) ==
    IF s = <<>> THEN <<>>
    ELSE (IF Head(s) \in C THEN <<>> ELSE <<Head(s)>>) \o Drop(Tail(s), C)

\* the characters of s that lie in C, in order
RECURSIVE Keep(_, _)
Keep(s, C) ==
    IF s = <<>> THEN <<>>
    ELSE (IF Head(s) \in C THEN <<Head(s)>> ELSE <<>>) \o Keep(Tail(s), C)

\* str.lower() on ASCII
LowerOf(c) ==
    IF c \in UpperChars
    THEN CHOOSE l \in LowerChars :
           \E i \in 1..26 :
              /\ <<"A","B","C","D","E","F","G","H","I","J","K","L","M",
                   "N","O","P","Q","R","S","T","U","V","W","X","Y","Z">>[i] = c
              /\ <<"a","b","c","d","e","f","g","h","i","j","k","l","m",
                   "n","o","p","q","r","s","t","u","v","w","x","y","z">>[i] = l
    ELSE c

Lower(s) == [i \in 1..Len(s) |-> LowerOf(s[i])]

\* sorted(...) of a set of numbers
RECURSIVE SortAsc(_)
SortAsc(S) == IF S = {} THEN <<>> ELSE <<SetMin(S)>> \o SortAsc(S \ {SetMin(S)})

\* sorted(..., reverse=True) of a set of numbers
RECURSIVE SortDesc(_)
SortDesc(S) == IF S = {} THEN <<>> ELSE <<SetMax(S)>> \o SortDesc(S \ {SetMax(S)})

\* str.split(): the maximal runs of non-whitespace, in order
Split(s) ==
    LET starts == {i \in 1..Len(s) :
                     s[i] \notin SpaceChars /\ (i = 1 \/ s[i - 1] \in SpaceChars)}
        ends(i) == SetMax({k \in i..Len(s) :
                             \A j \in i..k : s[j] \notin SpaceChars})
        order  == SortAsc(starts)
    IN  [n \in 1..Len(order) |-> SubSeq(s, order[n], ends(order[n]))]

\* Python's "sub in s"
Contains(s, sub) ==
    \E i \in 0..(Len(s) - Len(sub)) : SubSeq(s, i + 1, i + Len(sub)) = sub

StartsWith(s, p) == Len(s) >= Len(p) /\ SubSeq(s, 1, Len(p)) = p

\* str.count(sub): occurrences that do not overlap, from the left
RECURSIVE CountFrom(_, _, _)
CountFrom(s, sub, i) ==
    IF i + Len(sub) - 1 > Len(s) THEN 0
    ELSE IF SubSeq(s, i, i + Len(sub) - 1) = sub
         THEN 1 + CountFrom(s, sub, i + Len(sub))
         ELSE CountFrom(s, sub, i + 1)

\* Counter(words).most_common(1)[0][1]
MostCommonCount(words) ==
    IF words = <<>> THEN 0
    ELSE SetMax({Cardinality({j \in 1..Len(words) : words[j] = words[i]}) :
                   i \in 1..Len(words)})

\* line 66
common_short_words == {
    <<"t","o">>, <<"o","f">>, <<"i","n">>, <<"o","n">>, <<"a","t">>,
    <<"i","s">>, <<"a","n">>, <<"a">>, <<"o","r">>, <<"a","n","d">>,
    <<"f","o","r">>, <<"b","y">>, <<"a","s">>, <<"i","t">>, <<"b","e">>,
    <<"d","o">>, <<"n","o","t">>, <<"w","e">>, <<"h","e">>, <<"s","h","e">>,
    <<"t","h","e","y">>, <<"y","o","u">>, <<"i","f">>, <<"b","u","t">>,
    <<"c","a","n">>, <<"m","a","y">>, <<"w","i","l","l">>, <<"a","r","e">>,
    <<"w","a","s">>, <<"w","e","r","e">>, <<"h","a","s">>, <<"h","a","d">>,
    <<"h","a","v","e">>, <<"t","h","i","s">>, <<"t","h","a","t">>,
    <<"w","i","t","h">>, <<"f","r","o","m">>, <<"i","n","t","o">>,
    <<"o","u","t">>, <<"u","p">>, <<"d","o","w","n">>, <<"t","h","e","n">>,
    <<"t","h","a","n">>, <<"a","l","s","o">>, <<"o","n","l","y">>,
    <<"v","e","r","y">>, <<"m","u","c","h">> }

\* re.fullmatch(r'[-=_]{3,}', s)
IsSeparatorRun(s) == Len(s) >= 3 /\ \A i \in 1..Len(s) : s[i] \in {"-", "=", "_"}

\* re.fullmatch(r'^\s*\d+\s*$', s)
IsNumberOnly(s) ==
    LET j == RunEnd(s, 1, SpaceChars)
        k == RunEnd(s, j + 1, DigitChars)
    IN  k >= j + 1 /\ RunEnd(s, k + 1, SpaceChars) = Len(s)

\* re.match(r'^(http[s]?://\S+|www\.\S+)', s, re.IGNORECASE)
StartsWithUrl(s) ==
    \E p \in { <<"h","t","t","p",":","/","/">>,
               <<"h","t","t","p","s",":","/","/">>,
               <<"w","w","w",".">> } :
        /\ StartsWith(Lower(s), p)
        /\ Len(s) > Len(p)
        /\ s[Len(p) + 1] \notin SpaceChars

\* re.fullmatch(r'\d+(\.\d+)*', s)
IsDottedNumber(s) ==
    /\ s # <<>>
    /\ \A i \in 1..Len(s) : s[i] \in DigitChars \cup {"."}
    /\ s[1] # "." /\ s[Len(s)] # "."
    /\ \A i \in 1..(Len(s) - 1) : ~(s[i] = "." /\ s[i + 1] = ".")

\* re.fullmatch(r'^\s*(\d+(\.\d+)*|[A-Z])\s*$', s)
IsSectionNumberOnly(s) ==
    LET core == Strip(s)
    IN  IsDottedNumber(core) \/ (Len(core) = 1 /\ core[1] \in UpperChars)

\* lines 39-86; the ratios are compared as integers
is_garbled_text(text) ==
    LET cleaned_text_for_check == Drop(text, {" "})
        n     == Len(cleaned_text_for_check)
        words == Split(text)
        short_words ==
            {i \in 1..Len(words) :
                Len(words[i]) <= 3 /\ Lower(words[i]) \notin common_short_words}
    IN  \/ text = <<>>
        \/ cleaned_text_for_check = <<>>
        \/ 2 * Len(Keep(cleaned_text_for_check, AlnumChars)) < n
        \/ Len(words) > 5 /\ 2 * MostCommonCount(words) > Len(words)
        \/ Len(words) > 10 /\ 2 * Cardinality(short_words) > Len(words)
        \/ /\ n > 10
           /\ \/ \E i \in 1..(n - 3) :
                    /\ cleaned_text_for_check[i] = cleaned_text_for_check[i + 1]
                    /\ cleaned_text_for_check[i] = cleaned_text_for_check[i + 2]
                    /\ cleaned_text_for_check[i] = cleaned_text_for_check[i + 3]
              \/ \E sub_len \in 2..4 :
                    /\ n >= sub_len * 2
                    /\ \E i \in 1..(n - sub_len) :
                          10 * sub_len *
                             CountFrom(cleaned_text_for_check,
                                       SubSeq(cleaned_text_for_check, i,
                                              i + sub_len - 1), 1)
                            > 6 * n

\* str.isupper(): a cased character, and no lower-case one
IsUpper(w) ==
    /\ \E i \in 1..Len(w) : w[i] \in UpperChars
    /\ \A i \in 1..Len(w) : w[i] \notin LowerChars

\* str.isalpha()
IsAlpha(w) == w # <<>> /\ \A i \in 1..Len(w) : w[i] \in AlphaChars

\* line 116
AllCapsTitles == {
    <<"T","A","B","L","E"," ","O","F"," ","C","O","N","T","E","N","T","S">>,
    <<"C","O","N","T","E","N","T","S">>,
    <<"I","N","T","R","O","D","U","C","T","I","O","N">>,
    <<"S","Y","L","L","A","B","U","S">> }

\* line 121
FlyerWords == {
    <<"y","o","u","'","r","e">>, <<"t","o">>, <<"a">>, <<"f","o","r">>,
    <<"d","a","t","e">>, <<"t","i","m","e">>, <<"r","s","v","p">>,
    <<"i","n","v","i","t","e","d">>, <<"p","a","r","k">> }

\* lines 106-131: the filters of a single-page document
RejectedOnSinglePage(candidate_text) ==
    LET words_in_candidate == Split(candidate_text)
        n == Len(words_in_candidate)
    IN  \/ Len(candidate_text) <= 20 /\ candidate_text[Len(candidate_text)] = ":"
        \/ /\ n > 0 /\ n <= 3
           /\ \A i \in 1..n : IsUpper(words_in_candidate[i])
           /\ ~is_garbled_text(candidate_text)
           /\ candidate_text \notin AllCapsTitles
        \/ /\ Len(candidate_text) <= 25 /\ n <= 4
           /\ \E i \in 1..n : Lower(words_in_candidate[i]) \in FlyerWords
        \/ /\ \E i \in 1..Len(candidate_text) : candidate_text[i] \in DigitChars
           /\ \/ Len(candidate_text) < 30
              \/ ~\E i \in 1..n : IsAlpha(words_in_candidate[i])
                                   /\ Len(words_in_candidate[i]) > 4
        \/ candidate_text[1] = "(" /\ candidate_text[Len(candidate_text)] = ")"

\* lines 89-137: the candidate, or the empty text when it is rejected
filter_title_candidate(candidate_text, document_page_count) ==
    IF candidate_text = <<>> THEN <<>>
    ELSE IF \/ IsSeparatorRun(candidate_text)
            \/ IsNumberOnly(candidate_text)
            \/ is_garbled_text(candidate_text)
            \/ StartsWithUrl(candidate_text)
            \/ IsSectionNumberOnly(candidate_text)
         THEN <<>>
    ELSE IF document_page_count = 1 /\ RejectedOnSinglePage(candidate_text)
         THEN <<>>
    ELSE IF document_page_count > 1 /\ Len(candidate_text) < 7 THEN <<>>
    ELSE candidate_text

----------------------------------------------------------------------------
\* extract_outline_from_pdf: level map, outline assembly, final ordering.

MaxHeadings == 4        \* accepted heading candidates per document
PageCount == 2          \* document.page_count
HeadingSizes == {240, 180, 140, 120}    \* tenths of a point
LineTops == {100, 400}                  \* bbox[1] of a line

\* Lines as the page source gives them; a candidate's text is clean_text of
\* its line (line 435), never empty (436) and at least 3 characters (148).
RawHeadingLines == { <<"S","c","o","p","e">>,
                     <<" ","T","e","r","m","s"," ","7">> }
HeadingTexts ==
    {t \in {clean_text(l) : l \in RawHeadingLines} : Len(t) >= 3}

\* The titles the title resolution can hand over: empty, or a candidate
\* that filter_title_candidate accepts for a document of PageCount pages.
OutlineTitles ==
    { filter_title_candidate(t, PageCount) :
        t \in { <<>>, <<"(","S","c","o","p","e",")">> } }

LevelNames == <<"H1", "H2", "H3", "H4", "H5", "H6", "H7", "H8", "H9">>
NoLevel == "None"

\* int(level[1])
LevelVal(level) == CHOOSE n \in 1..Len(LevelNames) : LevelNames[n] = level

\* f"H{n}"
LevelName(n) == LevelNames[n]

Abs(x) == IF x < 0 THEN 0 - x ELSE x

Range(f) == {f[x] : x \in DOMAIN f}

\* re.sub(r'[^\w\s]', '', t).lower().strip()
NormalizeForTitle(t) == Strip(Lower(Keep(t, WordChars \cup SpaceChars)))

\* re.sub(r'[\d\W_]+', '', t).lower()
NormalizeForDedupe(t) == Lower(Keep(t, AlphaChars))

\* the ranks without the shift past the largest size
RankLevelUnshifted(i) == LevelName(i)

\* lines 470-475: the second, third and fourth largest sizes get H1, H2, H3
RankLevel(i) == LevelName(i - 1)

DirectLevels(u) ==
    [s \in {u[i] : i \in 2..(IF Len(u) < 4 THEN Len(u) ELSE 4)} |->
        RankLevel(CHOOSE i \in 2..Len(u) : u[i] = s)]

\* lines 491-497: the deepest level already in the map, if any
LowestDefinedLevel(m) ==
    IF "H3" \in Range(m) THEN "H3"
    ELSE IF "H2" \in Range(m) THEN "H2"
    ELSE IF "H1" \in Range(m) THEN "H1"
    ELSE NoLevel

\* lines 484-487: the first defined size, ascending, with size >= defined - 0.5
NearDefined(size, defined_sizes) ==
    {j \in 1..Len(defined_sizes) : size >= defined_sizes[j] - 5}

\* lines 481-497
RECURSIVE FallbackLoop(_, _, _, _)
FallbackLoop(u, i, defined_sizes, m) ==
    IF i > Len(u) THEN m
    ELSE IF u[i] \in DOMAIN m THEN FallbackLoop(u, i + 1, defined_sizes, m)
    ELSE LET near == NearDefined(u[i], defined_sizes)
             lvl  == IF near # {} THEN m[defined_sizes[SetMin(near)]]
                     ELSE LowestDefinedLevel(m)
         IN  IF lvl = NoLevel
             THEN FallbackLoop(u, i + 1, defined_sizes, m)
             ELSE FallbackLoop(u, i + 1, defined_sizes, m @@ (u[i] :> lvl))

\* lines 464-497
BuildLevelMapOf(headings) ==
    IF headings = <<>> THEN <<>>
    ELSE LET unique_heading_sizes ==
                 SortDesc({headings[i].size : i \in 1..Len(headings)})
             direct == DirectLevels(unique_heading_sizes)
         IN  FallbackLoop(unique_heading_sizes, 1, SortAsc(DOMAIN direct), direct)

\* line 511: h_level_map.get(size)
LevelOf(m, size) == IF size \in DOMAIN m THEN m[size] ELSE NoLevel

\* the title check without its equality case
IsTitleEchoContainmentOnly(t, text, page_num) ==
    /\ t # <<>>
    /\ LET normalized_title   == NormalizeForTitle(t)
           normalized_heading == NormalizeForTitle(text)
       IN  \/ /\ Len(normalized_title) > 5
              /\ Contains(normalized_title, normalized_heading)
              /\ Abs(Len(normalized_title) - Len(normalized_heading)) < 15
              /\ page_num < 3
           \/ /\ Len(normalized_heading) > 5
              /\ Contains(normalized_heading, normalized_title)
              /\ Abs(Len(normalized_heading) - Len(normalized_title)) < 15
              /\ page_num < 3

\* lines 518-528
IsTitleEcho(t, text, page_num) ==
    /\ t # <<>>
    /\ LET normalized_title   == NormalizeForTitle(t)
           normalized_heading == NormalizeForTitle(text)
       IN  \/ normalized_title = normalized_heading
           \/ /\ Len(normalized_title) > 5
              /\ Contains(normalized_title, normalized_heading)
              /\ Abs(Len(normalized_title) - Len(normalized_heading)) < 15
              /\ page_num < 3
           \/ /\ Len(normalized_heading) > 5
              /\ Contains(normalized_heading, normalized_title)
              /\ Abs(Len(normalized_heading) - Len(normalized_title)) < 15
              /\ page_num < 3

\* lines 534-538
IsDuplicate(tracker, norm_text, page_num, level) ==
    \E e \in tracker :
        norm_text = e[1] /\ Abs(page_num - e[2]) <= 1 /\ level = e[3]

\* a promotion to the level of the last kept heading instead of one deeper
PromotedLevelValToLast(last_val, current_val) ==
    IF last_val # 0 /\ current_val > last_val + 1 THEN last_val
    ELSE current_val

\* lines 544-547
PromotedLevelVal(last_val, current_val) ==
    IF last_val # 0 /\ current_val > last_val + 1 THEN last_val + 1
    ELSE current_val

\* line 460: the key (page, y0, -size)
HeadingKeyLE(a, b) ==
    \/ a.page < b.page
    \/ a.page = b.page /\ a.y0 < b.y0
    \/ a.page = b.page /\ a.y0 = b.y0 /\ a.size >= b.size

\* lines 549-553; y0 (bbox[1] of the line) is carried along to state the
\* reading order, the source's entry holds level, text and page only.
OutlineEntryOneIndexed(level, heading_info) ==
    [level |-> level, text |-> heading_info.text,
     page |-> heading_info.page + 1, y0 |-> heading_info.y0]

OutlineEntry(level, heading_info) ==
    [level |-> level, text |-> heading_info.text,
     page |-> heading_info.page, y0 |-> heading_info.y0]

\* a sort key of the page alone
OutlineKeyLessPageOnly(a, b) == a.page < b.page

\* line 562: the key (page, int(level[1]))
OutlineKeyLess(a, b) ==
    \/ a.page < b.page
    \/ a.page = b.page /\ LevelVal(a.level) < LevelVal(b.level)

\* list.sort is stable: e goes after every entry whose key is not greater
InsertSorted(sorted, e) ==
    LET after == {j \in 1..Len(sorted) : OutlineKeyLess(e, sorted[j])}
        at    == IF after = {} THEN Len(sorted) + 1 ELSE SetMin(after)
    IN  SubSeq(sorted, 1, at - 1) \o <<e>> \o SubSeq(sorted, at, Len(sorted))

RECURSIVE SortOutlineFrom(_, _, _)
SortOutlineFrom(s, i, acc) ==
    IF i > Len(s) THEN acc ELSE SortOutlineFrom(s, i + 1, InsertSorted(acc, s[i]))

SortOutline(s) == SortOutlineFrom(s, 1, <<>>)

\* One accepted line (lines 450-457); y0 is bbox[1].
Candidates ==
    [text : HeadingTexts, size : HeadingSizes, page : 0..(PageCount - 1),
     y0 : LineTops]

\* list.sort is stable: c goes after every candidate whose key is not greater
InsertCandidate(sorted, c) ==
    LET after == {j \in 1..Len(sorted) : ~HeadingKeyLE(sorted[j], c)}
        at    == IF after = {} THEN Len(sorted) + 1 ELSE SetMin(after)
    IN  SubSeq(sorted, 1, at - 1) \o <<c>> \o SubSeq(sorted, at, Len(sorted))

RECURSIVE SortCandidatesFrom(_, _, _)
SortCandidatesFrom(s, i, acc) ==
    IF i > Len(s) THEN acc
    ELSE SortCandidatesFrom(s, i + 1, InsertCandidate(acc, s[i]))

\* line 460
SortCandidates(s) == SortCandidatesFrom(s, 1, <<>>)

\* lines 425-457: one more line is accepted as a heading candidate; the
\* loop visits the pages in ascending order, the lines of a page in the
\* order of the page source.
CollectHeading ==
    /\ pc = "collect"
    /\ Len(potential_headings_with_sizes) < MaxHeadings
    /\ \E c \in Candidates :
          /\ IF potential_headings_with_sizes = <<>> THEN TRUE
             ELSE potential_headings_with_sizes[
                    Len(potential_headings_with_sizes)].page <= c.page
          /\ potential_headings_with_sizes' =
                Append(potential_headings_with_sizes, c)
    /\ UNCHANGED <<pc, title, h_level_map, idx, outline, seen_headings_tracker,
                   last_added_heading_level_val, result, cleanVars, titleVars,
                   batchVars, docVars>>

\* lines 459-504: the candidates are sorted, the level map is built
BuildLevelMap ==
    /\ pc = "collect"
    /\ potential_headings_with_sizes' =
          SortCandidates(potential_headings_with_sizes)
    /\ h_level_map' = BuildLevelMapOf(potential_headings_with_sizes')
    /\ seen_headings_tracker' = {}
    /\ last_added_heading_level_val' = 0
    /\ idx' = 1
    /\ pc' = "assemble"
    /\ UNCHANGED <<title, outline, result, cleanVars, titleVars, batchVars, docVars>>

\* one iteration of the loop of lines 506-556
AssembleOne ==
    /\ pc = "assemble"
    /\ idx <= Len(potential_headings_with_sizes)
    /\ LET heading_info   == potential_headings_with_sizes[idx]
           assigned_level == LevelOf(h_level_map, heading_info.size)
           norm           == NormalizeForDedupe(heading_info.text)
           keep ==
               /\ assigned_level # NoLevel
               /\ ~IsTitleEcho(title, heading_info.text, heading_info.page)
               /\ ~IsDuplicate(seen_headings_tracker, norm, heading_info.page,
                               assigned_level)
       IN  IF keep
           THEN LET val == PromotedLevelVal(last_added_heading_level_val,
                                            LevelVal(assigned_level))
                    lvl == IF val = LevelVal(assigned_level)
                           THEN assigned_level ELSE LevelName(val)
                IN  /\ outline' = Append(outline, OutlineEntry(lvl, heading_info))
                    /\ seen_headings_tracker' = seen_headings_tracker \cup
                                     {<<norm, heading_info.page, lvl>>}
                    /\ last_added_heading_level_val' = val
           ELSE UNCHANGED <<outline, seen_headings_tracker,
                            last_added_heading_level_val>>
    /\ idx' = idx + 1
    /\ UNCHANGED <<pc, title, potential_headings_with_sizes, h_level_map, result,
                   cleanVars, titleVars, batchVars, docVars>>

\* lines 559-570: the final sort, then the return
SortAndReturn ==
    /\ pc = "assemble"
    /\ idx > Len(potential_headings_with_sizes)
    /\ outline' = SortOutline(outline)
    /\ result' = [title |-> title, outline |-> outline']
    /\ pc' = "returned"
    /\ UNCHANGED <<title, potential_headings_with_sizes, h_level_map, idx,
                   seen_headings_tracker, last_added_heading_level_val,
                   cleanVars, titleVars, batchVars, docVars>>

Next == CollectHeading \/ BuildLevelMap \/ AssembleOne \/ SortAndReturn

----------------------------------------------------------------------------
\* Properties of the returned outline and of the level map.

Returned == pc = "returned"

EntryPairs(o) == {p \in (1..Len(o)) \X (1..Len(o)) : p[1] < p[2]}

\* C1: in the returned outline, every entry's level number is at most the
\* level number of the entry before it plus 1.
HierarchyGapInReturnedOutline ==
    Returned =>
        \A i \in 1..(Len(result.outline) - 1) :
            LevelVal(result.outline[i + 1].level)
                <= LevelVal(result.outline[i].level) + 1

\* C2: the returned outline holds no two entries with the same normalized
\* text and the same emitted level whose pages differ by at most 1.
NoDuplicateInReturnedOutline ==
    Returned =>
        \A p \in EntryPairs(result.outline) :
            LET a == result.outline[p[1]]
                b == result.outline[p[2]]
            IN  ~ /\ NormalizeForDedupe(a.text) = NormalizeForDedupe(b.text)
                  /\ a.level = b.level
                  /\ Abs(a.page - b.page) <= 1

LevelMapBuilt == pc \in {"assemble", "returned"}

\* C3: in the level map a larger size never has a larger level number
\* than a smaller size.
LevelMapMonotone ==
    LevelMapBuilt =>
        \A a \in DOMAIN h_level_map : \A b \in DOMAIN h_level_map :
            a > b => LevelVal(h_level_map[a]) <= LevelVal(h_level_map[b])

\* C4: no entry of the returned outline has the normalized text of the
\* resolved title, the empty title included.
TitleExcludedFromOutline ==
    Returned =>
        \A i \in 1..Len(result.outline) :
            NormalizeForTitle(result.outline[i].text)
                # NormalizeForTitle(result.title)

\* a candidate with the title's normalized text was seen on the last page
\* and other candidates were kept
TitleEchoDropped ==
    /\ Returned
    /\ result.title # <<>>
    /\ result.outline # <<>>
    /\ \E i \in 1..Len(potential_headings_with_sizes) :
          /\ potential_headings_with_sizes[i].page = PageCount - 1
          /\ NormalizeForTitle(potential_headings_with_sizes[i].text)
                = NormalizeForTitle(result.title)

\* C5: every size of an accepted heading candidate has a level in the map.
EverySizeMapped ==
    LevelMapBuilt =>
        \A i \in 1..Len(potential_headings_with_sizes) :
            LevelOf(h_level_map, potential_headings_with_sizes[i].size)
                \in {"H1", "H2", "H3", "H4"}

\* C8: every entry of the returned outline has a level among H1..H4, a
\* non-empty text and a page p with 0 <= p < page count.
EntriesWellFormed ==
    Returned =>
        \A i \in 1..Len(result.outline) :
            /\ result.outline[i].level \in {"H1", "H2", "H3", "H4"}
            /\ result.outline[i].text # <<>>
            /\ 0 <= result.outline[i].page
            /\ result.outline[i].page < PageCount

\* the outline holds an H3, an entry of the last page, and an entry that
\* was promoted above every level its line's position could have mapped to
PromotedEntryReturned ==
    /\ Returned
    /\ \E i \in 1..Len(result.outline) : result.outline[i].level = "H3"
    /\ \E i \in 1..Len(result.outline) : result.outline[i].page = PageCount - 1
    /\ \E i \in 1..Len(result.outline) :
          \A j \in 1..Len(potential_headings_with_sizes) :
              LET e == result.outline[i]
                  c == potential_headings_with_sizes[j]
              IN  (c.text = e.text /\ c.page = e.page /\ c.y0 = e.y0)
                     => LevelOf(h_level_map, c.size) # e.level

\* C9, as claimed: the returned outline is ordered by page, and on one page
\* by the vertical position of the lines, whatever the levels.
OrderedByPageThenTop ==
    Returned =>
        \A p \in EntryPairs(result.outline) :
            LET a == result.outline[p[1]]
                b == result.outline[p[2]]
            IN  /\ a.page <= b.page
                /\ a.page = b.page => a.y0 <= b.y0

\* C9, amended: the returned outline is ordered by page, on one page by
\* level number (H1 first), and among the entries of one page and one level
\* by the vertical position of the lines.
OrderedByPageThenLevel ==
    Returned =>
        \A p \in EntryPairs(result.outline) :
            LET a == result.outline[p[1]]
                b == result.outline[p[2]]
            IN  /\ a.page <= b.page
                /\ a.page = b.page => LevelVal(a.level) <= LevelVal(b.level)
                /\ (a.page = b.page /\ a.level = b.level) => a.y0 <= b.y0

\* entries of two pages, and on one page a shallower entry placed before
\* a deeper one that stands higher on the page
LevelBeforePosition ==
    /\ Returned
    /\ \E p \in EntryPairs(result.outline) :
          result.outline[p[1]].page < result.outline[p[2]].page
    /\ \E p \in EntryPairs(result.outline) :
          LET a == result.outline[p[1]]
              b == result.outline[p[2]]
          IN  /\ a.page = b.page
              /\ LevelVal(a.level) < LevelVal(b.level)
              /\ a.y0 > b.y0

\* C13: in the assembly loop the tracked level is the level of the last
\* kept heading; a kept heading whose mapped level is more than one deeper
\* than it is emitted at that level + 1, any other kept heading at its
\* mapped level (the first kept heading too), and a dropped heading leaves
\* the tracked level as it was.
PromotionAtAssembly ==
    [][(pc = "assemble" /\ idx <= Len(potential_headings_with_sizes)) =>
         LET h      == potential_headings_with_sizes[idx]
             mapped == LevelOf(h_level_map, h.size)
             prev   == IF outline = <<>> THEN 0
                       ELSE LevelVal(outline[Len(outline)].level)
         IN  /\ last_added_heading_level_val = prev
             /\ IF Len(outline') = Len(outline) + 1
                THEN LET e == outline'[Len(outline')]
                     IN  /\ mapped # NoLevel
                         /\ SubSeq(outline', 1, Len(outline)) = outline
                         /\ e.text = h.text
                         /\ e.level =
                              IF prev # 0 /\ LevelVal(mapped) > prev + 1
                              THEN LevelName(prev + 1) ELSE mapped
                         /\ last_added_heading_level_val' = LevelVal(e.level)
                ELSE /\ outline' = outline
                     /\ last_added_heading_level_val' = prev]_outlineVars

\* every candidate was visited: an H1 was kept, the heading kept right after
\* it was mapped to H3 and emitted as H2, and some heading was dropped
PromotedAfterH1 ==
    /\ pc = "assemble"
    /\ idx > Len(potential_headings_with_sizes)
    /\ Len(outline) < Len(potential_headings_with_sizes)
    /\ \E i \in 2..Len(outline) :
          /\ outline[i - 1].level = "H1"
          /\ outline[i].level = "H2"
          /\ \A j \in 1..Len(potential_headings_with_sizes) :
                LET c == potential_headings_with_sizes[j]
                IN  (c.text = outline[i].text /\ c.page = outline[i].page
                        /\ c.y0 = outline[i].y0)
                       => LevelOf(h_level_map, c.size) = "H3"

\* the distinct sizes of the candidates, largest first (line 467)
SizesDescending ==
    SortDesc({potential_headings_with_sizes[i].size :
                 i \in 1..Len(potential_headings_with_sizes)})

\* C14, as claimed: the largest size gets H1, the second largest H2, the
\* third H3 and the fourth H4.
SizesRankedFromLargest ==
    LevelMapBuilt =>
        \A i \in 1..Len(SizesDescending) :
            i <= 4 => LevelOf(h_level_map, SizesDescending[i]) = LevelNames[i]

\* C14, amended: the largest size is skipped, the second largest size gets
\* H1, the third H2 and the fourth H3.
SizesRankedFromSecondLargest ==
    LevelMapBuilt =>
        \A i \in 2..Len(SizesDescending) :
            i <= 4 => LevelOf(h_level_map, SizesDescending[i]) = LevelNames[i - 1]

\* the level map of a document with four distinct heading sizes
FourSizesRanked ==
    /\ LevelMapBuilt
    /\ Len(SizesDescending) = 4
    /\ LevelOf(h_level_map, SizesDescending[4]) = "H3"

----------------------------------------------------------------------------
\* extract_outline_from_pdf, lines 362-385: the title is resolved from the
\* text rebuilt from the prominent first-page spans, the metadata title and
\* the lines of the first page.

MaxTitleLines == 2
TitlePageCounts == {0, 1, 2}

\* the text rebuilt from potential_title_spans (lines 334-360); empty when
\* no span qualified
VisualTexts == { <<>>, <<"A","n","n","u","a","l"," ","R","e","p","o","r","t">>,
                 <<"A","D","D","R","E","S","S",":">>, <<"I","n","t","r","o">> }

\* document.metadata.get("title"); empty when absent
MetadataTitles == { <<>>, <<"U","n","t","i","t","l","e","d">>, <<"2","0","2","4">>,
                    <<"I","n","t","r","o">> }

\* the lines of document[0].get_text("text")
FirstPageLines == { <<"-","-","-">>, <<"I","n","t","r","o">>,
                    <<"T","e","r","m","s"," "," ","o","f"," ","U","s","e"," ","3">> }

\* line 362-365
VisualCandidate(visual, page_count) ==
    IF page_count > 0 /\ visual # <<>>
    THEN filter_title_candidate(Strip(clean_text(visual)), page_count)
    ELSE <<>>

\* lines 371-373
MetadataCandidate(meta, page_count) ==
    IF meta # <<>> THEN filter_title_candidate(clean_text(meta), page_count)
    ELSE <<>>

\* lines 379-385: the first line that passes the filter, or the empty text
RECURSIVE FirstAcceptedLine(_, _, _)
FirstAcceptedLine(lines, i, page_count) ==
    IF i > Len(lines) THEN <<>>
    ELSE LET filtered_line ==
                 filter_title_candidate(Strip(clean_text(lines[i])), page_count)
         IN  IF filtered_line # <<>> THEN filtered_line
             ELSE FirstAcceptedLine(lines, i + 1, page_count)

\* the metadata title taken before the visual candidate
AssignedTitleMetadataFirst(visual_candidate, meta, page_count) ==
    IF meta # <<>> /\ MetadataCandidate(meta, page_count) # <<>>
    THEN MetadataCandidate(meta, page_count)
    ELSE visual_candidate

\* lines 368-373
AssignedTitle(visual_candidate, meta, page_count) ==
    IF visual_candidate # <<>> THEN visual_candidate
    ELSE IF meta # <<>> THEN MetadataCandidate(meta, page_count)
    ELSE <<>>

\* lines 286-365
ResolveVisual ==
    /\ titlePc = "visual"
    /\ visual_title_candidate' = VisualCandidate(visual_text, doc_page_count)
    /\ consulted' = IF doc_page_count > 0 /\ visual_text # <<>>
                    THEN consulted \cup {"visual"} ELSE consulted
    /\ titlePc' = "assign"
    /\ UNCHANGED <<doc_page_count, visual_text, metadata_title, first_page_lines,
                   resolved_title, cleanVars, outlineVars, batchVars, docVars>>

\* lines 367-373
AssignTitle ==
    /\ titlePc = "assign"
    /\ resolved_title' =
          AssignedTitle(visual_title_candidate, metadata_title, doc_page_count)
    /\ consulted' = IF visual_title_candidate = <<>> /\ metadata_title # <<>>
                    THEN consulted \cup {"metadata"} ELSE consulted
    /\ titlePc' = "fallback"
    /\ UNCHANGED <<doc_page_count, visual_text, metadata_title, first_page_lines,
                   visual_title_candidate, cleanVars, outlineVars, batchVars, docVars>>

\* lines 375-385
FallbackTitle ==
    /\ titlePc = "fallback"
    /\ IF resolved_title = <<>> /\ doc_page_count > 0
       THEN /\ resolved_title' =
                  FirstAcceptedLine(first_page_lines, 1, doc_page_count)
            /\ consulted' = consulted \cup {"line"}
       ELSE UNCHANGED <<resolved_title, consulted, docVars>>
    /\ titlePc' = "done"
    /\ UNCHANGED <<doc_page_count, visual_text, metadata_title, first_page_lines,
                   visual_title_candidate, cleanVars, outlineVars, batchVars, docVars>>

TitleNext == ResolveVisual \/ AssignTitle \/ FallbackTitle

\* C10: the title is the first of the visual candidate, the metadata title
\* and the first acceptable first-page line that survives the filter, a
\* later source is consulted only when every earlier one gave nothing, and
\* the title is empty when none survives.
TitleResolvedInOrder ==
    titlePc = "done" =>
        LET v == VisualCandidate(visual_text, doc_page_count)
            m == MetadataCandidate(metadata_title, doc_page_count)
            l == IF doc_page_count > 0
                 THEN FirstAcceptedLine(first_page_lines, 1, doc_page_count)
                 ELSE <<>>
        IN  /\ resolved_title = IF v # <<>> THEN v ELSE IF m # <<>> THEN m ELSE l
            /\ "metadata" \in consulted => v = <<>>
            /\ "line" \in consulted => (v = <<>> /\ m = <<>>)
            /\ (v = <<>> /\ m = <<>> /\ l = <<>>) => resolved_title = <<>>

\* the visual candidate and the metadata title were both there and both
\* rejected, the first line was rejected too, and the second line is the title
TitleFromSecondLine ==
    /\ titlePc = "done"
    /\ consulted = {"visual", "metadata", "line"}
    /\ Len(first_page_lines) = 2
    /\ resolved_title # <<>>
    /\ resolved_title = Strip(clean_text(first_page_lines[2]))
    /\ resolved_title # Strip(clean_text(first_page_lines[1]))

\* C12: with no visual candidate and the metadata title "Untitled", the
\* title is not the metadata title: it is the first acceptable first-page
\* line, or empty.
UntitledMetadataRejected ==
    (/\ titlePc = "done"
     /\ VisualCandidate(visual_text, doc_page_count) = <<>>
     /\ metadata_title = <<"U","n","t","i","t","l","e","d">>)
        => resolved_title =
              IF doc_page_count > 0
              THEN FirstAcceptedLine(first_page_lines, 1, doc_page_count)
              ELSE <<>>

----------------------------------------------------------------------------
\* main, lines 583-593, around extract_outline_from_pdf's try/except
\* (lines 248-253 and 564-570).

NumDocs == 2

\* the steps inside the try block, in order: fitz.open (252), header/footer
\* pre-pass (254-282), title (285-385), font statistics (387-420),
\* classification (423-460), level map and assembly (463-556), final sort
\* and close (559-564)
Steps == <<"open", "prepass", "title", "stats", "classify", "assemble", "finish">>

\* what the steps compute for a document when none of them raises
DocTitles == { <<>>, <<"A","n","n","u","a","l"," ","R","e","p","o","r","t">> }
DocOutlines == { <<>>, <<[level |-> "H1", text |-> <<"S","c","o","p","e">>, page |-> 0]>> }
Docs == [title : DocTitles, outline : DocOutlines]

\* the except clause returning what had been computed so far
ExceptResultPartial(t, o) == [title |-> t, outline |-> o]

\* line 568
ExceptResult(t, o) == [title |-> <<>>, outline |-> <<>>]

\* line 589 and lines 248-251: the call, title and outline start empty
StartDocument ==
    /\ batchPc = "loop"
    /\ pdf_idx <= Len(pdf_files)
    /\ cur_title' = <<>>
    /\ cur_outline' = <<>>
    /\ step' = 1
    /\ batchPc' = "try"
    /\ UNCHANGED <<pdf_files, pdf_idx, fn_result, written, failed_at,
                   cleanVars, outlineVars, titleVars, docVars>>

\* a step of the try block completes
StepCompletes ==
    /\ batchPc = "try"
    /\ step <= Len(Steps)
    /\ cur_title' = IF Steps[step] = "title" THEN pdf_files[pdf_idx].title
                    ELSE cur_title
    /\ cur_outline' = IF Steps[step] = "assemble" THEN pdf_files[pdf_idx].outline
                      ELSE cur_outline
    /\ step' = step + 1
    /\ UNCHANGED <<batchPc, pdf_files, pdf_idx, fn_result, written, failed_at,
                   cleanVars, outlineVars, titleVars, docVars>>

\* a step of the try block raises: lines 566-568
StepRaises ==
    /\ batchPc = "try"
    /\ step <= Len(Steps)
    /\ fn_result' = ExceptResult(cur_title, cur_outline)
    /\ failed_at' = Append(failed_at, step)
    /\ batchPc' = "returned"
    /\ UNCHANGED <<pdf_files, pdf_idx, step, cur_title, cur_outline, written,
                   cleanVars, outlineVars, titleVars, docVars>>

\* line 570
ReturnNormally ==
    /\ batchPc = "try"
    /\ step > Len(Steps)
    /\ fn_result' = [title |-> cur_title, outline |-> cur_outline]
    /\ failed_at' = Append(failed_at, 0)
    /\ batchPc' = "returned"
    /\ UNCHANGED <<pdf_files, pdf_idx, step, cur_title, cur_outline, written,
                   cleanVars, outlineVars, titleVars, docVars>>

\* lines 591-593: the record is written, the loop goes to the next file
WriteOutput ==
    /\ batchPc = "returned"
    /\ written' = Append(written, fn_result)
    /\ pdf_idx' = pdf_idx + 1
    /\ step' = 0
    /\ batchPc' = "loop"
    /\ UNCHANGED <<pdf_files, cur_title, cur_outline, fn_result, failed_at,
                   cleanVars, outlineVars, titleVars, docVars>>

BatchNext ==
    StartDocument \/ StepCompletes \/ StepRaises \/ ReturnNormally \/ WriteOutput

BatchDone == batchPc = "loop" /\ pdf_idx > Len(pdf_files)

\* C7: a document whose processing raised at any step gets exactly the
\* empty record, nothing of what was computed before; every document
\* processed so far has its record written, and when the loop ends every
\* document has one.
FailureIsolated ==
    /\ \A d \in 1..Len(written) :
          failed_at[d] # 0 => written[d] = [title |-> <<>>, outline |-> <<>>]
    /\ (batchPc = "returned" /\ failed_at[pdf_idx] # 0)
          => fn_result = [title |-> <<>>, outline |-> <<>>]
    /\ Len(written) = pdf_idx - 1
    /\ BatchDone => Len(written) = NumDocs

\* the loop ended; the first document raised after its title and outline
\* had been computed, and a later document got its full record
FailedThenProcessed ==
    /\ BatchDone
    /\ failed_at[1] = Len(Steps)
    /\ pdf_files[1].title # <<>>
    /\ pdf_files[1].outline # <<>>
    /\ \E d \in 2..NumDocs :
          /\ failed_at[d] = 0
          /\ written[d] = pdf_files[d]
          /\ written[d].title # <<>>

----------------------------------------------------------------------------
\* clean_text applied twice: the inputs are all strings of at most
\* MaxCleanLen characters over CleanAlphabet.

MaxCleanLen == 5
CleanAlphabet == {"a", "A", "1", "-", " "}

CleanInputs == UNION {[1..n -> CleanAlphabet] : n \in 0..MaxCleanLen}

CleanFirst ==
    /\ cleanPc = "raw"
    /\ cleanOnce' = clean_text(cleanIn)
    /\ cleanPc' = "once"
    /\ UNCHANGED <<cleanIn, cleanTwice, outlineVars, titleVars, batchVars, docVars>>

CleanSecond ==
    /\ cleanPc = "once"
    /\ cleanTwice' = clean_text(cleanOnce)
    /\ cleanPc' = "twice"
    /\ UNCHANGED <<cleanIn, cleanOnce, outlineVars, titleVars, batchVars, docVars>>

CleanNext == CleanFirst \/ CleanSecond

\* C6: clean_text applied to its own output changes nothing.
CleanTextIdempotent == cleanPc = "twice" => cleanTwice = cleanOnce

----------------------------------------------------------------------------
\* extract_outline_from_pdf on a document that carries a bookmark list, from
\* the end of the loop of lines 425-457 on.

MaxDocHeadings == 3     \* accepted heading candidates of such a document

\* The bookmark lists a document can carry: (level, text, 1-indexed page).
\* fitz.open (line 252) hands the document over with them; no line of
\* extract_outline_from_pdf reads them.
Tocs ==
    { <<>>,
      <<[level |-> 1, text |-> <<"P","a","r","t"," ","O","n","e">>, page |-> 1]>>,
      <<[level |-> 1, text |-> <<"P","a","r","t"," ","O","n","e">>, page |-> 1],
        [level |-> 2, text |-> <<"P","a","r","t"," ","T","w","o">>, page |-> 2]>>,
      <<[level |-> 1, text |-> <<"S","c","o","p","e">>, page |-> 1],
        [level |-> 5, text |-> <<"T","e","r","m","s">>, page |-> 2]>> }

\* Lines as the page source gives them, with the size, page and top of each;
\* a candidate's text is clean_text of its line (line 435).
DocHeadingLines ==
    { [text |-> <<"1",".","1"," ","O","v","e","r","v","i","e","w">>,
       size |-> 180, page |-> 0, y0 |-> 100],
      [text |-> <<"1",".","2"," ","O","v","e","r","v","i","e","w">>,
       size |-> 180, page |-> 0, y0 |-> 400],
      [text |-> <<"S","c","o","p","e">>, size |-> 240, page |-> 0, y0 |-> 100],
      [text |-> <<" ","T","e","r","m","s"," ","7">>,
       size |-> 140, page |-> 1, y0 |-> 100] }

DocCandidates ==
    { [text |-> clean_text(l.text), size |-> l.size, page |-> l.page, y0 |-> l.y0] :
        l \in DocHeadingLines }

\* What the loop of lines 425-457 can leave behind: the pages in ascending
\* order, the lines of a page in the order of the page source.
DocHeadingLists ==
    { s \in UNION {[1..n -> DocCandidates] : n \in 1..MaxDocHeadings} :
        \A i \in 1..(Len(s) - 1) : s[i].page <= s[i + 1].page }

DocNext == BuildLevelMap \/ AssembleOne \/ SortAndReturn

\* C11: when the bookmark list has more than one usable entry (at least 3
\* characters, not a number only, not the title), the returned outline is
\* the bookmark list, its levels mapped 1 -> H1, 2 -> H2, 3 -> H3 and
\* 4 or more -> H4.
BookmarksUsedVerbatim ==
    Returned =>
        LET usable(e) ==
                /\ Len(e.text) >= 3
                /\ ~IsNumberOnly(e.text)
                /\ NormalizeForTitle(e.text) # NormalizeForTitle(result.title)
            entries == SelectSeq(toc, usable)
            mapped(e) == IF e.level >= 4 THEN "H4" ELSE LevelName(e.level)
        IN  Len(entries) > 1 =>
                /\ Len(result.outline) = Len(entries)
                /\ \A i \in 1..Len(entries) :
                      /\ result.outline[i].level = mapped(entries[i])
                      /\ result.outline[i].text = entries[i].text

\* C15: a heading with a level that is no title echo is dropped if and only
\* if a kept heading has the same text once everything but letters and
\* digits is removed and the case folded, a page at most 1 away and the
\* same level.
DuplicateIffAlnumMatch ==
    [][(pc = "assemble" /\ idx <= Len(potential_headings_with_sizes)) =>
         LET h      == potential_headings_with_sizes[idx]
             mapped == LevelOf(h_level_map, h.size)
             alnum(t) == Lower(Keep(t, AlnumChars))
         IN  (mapped # NoLevel /\ ~IsTitleEcho(title, h.text, h.page)) =>
                 ((outline' = outline) <=>
                     \E k \in 1..Len(outline) :
                         /\ alnum(outline[k].text) = alnum(h.text)
                         /\ Abs(h.page - outline[k].page) <= 1
                         /\ outline[k].level = mapped)]_outlineVars

----------------------------------------------------------------------------
\* is_likely_heading, lines 140-241. Lengths are in points, font sizes in
\* tenths of a point; the products with 0.1 ... 1.5 are compared as integers.

\* re.fullmatch(r'^\d+\.?$|^\([a-zA-Z]\)$|^\([0-9]+\)$|^[a-zA-Z]\.$', s)
IsListMarker(s) ==
    LET k == RunEnd(s, 1, DigitChars)
    IN  \/ k >= 1 /\ (k = Len(s) \/ (k = Len(s) - 1 /\ s[Len(s)] = "."))
        \/ Len(s) = 3 /\ s[1] = "(" /\ s[2] \in AlphaChars /\ s[3] = ")"
        \/ /\ Len(s) >= 3 /\ s[1] = "(" /\ s[Len(s)] = ")"
           /\ \A i \in 2..(Len(s) - 1) : s[i] \in DigitChars
        \/ Len(s) = 2 /\ s[1] \in AlphaChars /\ s[2] = "."

\* re.fullmatch(r'^\s*[A-Za-z]\s*$', s)
IsLetterOnly(s) == Len(Strip(s)) = 1 /\ Strip(s)[1] \in AlphaChars

\* re.fullmatch(r'^\s*[IXVLDCM]+\s*$', s)
IsRomanOnly(s) ==
    /\ Strip(s) # <<>>
    /\ \A i \in 1..Len(Strip(s)) :
          Strip(s)[i] \in {"I", "X", "V", "L", "D", "C", "M"}

\* re.search(r'(http[s]?://\S+|www\.\S+)', s, re.IGNORECASE)
ContainsUrl(s) == \E i \in 1..Len(s) : StartsWithUrl(SubSeq(s, i, Len(s)))

\* re.search(re.escape(pattern), s, re.IGNORECASE)
ContainsIgnoreCase(s, pattern) == Contains(Lower(s), Lower(pattern))

\* re.match(r'^\s*(\d+(\.\d+)*|[A-Z])\.\s*.*', s): after the leading
\* whitespace, digits and a period, or one capital and a period
IsFormLabel(s) ==
    LET t == LStrip(s)
        k == RunEnd(t, 1, DigitChars)
    IN  \/ k >= 1 /\ Len(t) > k /\ t[k + 1] = "."
        \/ Len(t) >= 2 /\ t[1] \in UpperChars /\ t[2] = "."

\* the end of the longest \d+(\.\d+)* that starts at i, i - 1 when none
RECURSIVE DottedEnd(_, _)
DottedEnd(s, i) ==
    LET k == RunEnd(s, i, DigitChars)
    IN  IF k < i THEN i - 1
        ELSE IF k + 2 <= Len(s) /\ s[k + 1] = "." /\ s[k + 2] \in DigitChars
             THEN DottedEnd(s, k + 2)
             ELSE k

\* re.match(r'^\s*(\d+(\.\d+)*)\s+.*', s)
IsNumberedStart(s) ==
    LET t == LStrip(s)
        k == DottedEnd(t, 1)
    IN  k >= 1 /\ Len(t) > k /\ t[k + 1] \in SpaceChars

\* any(f in font_name.lower() for f in ['bold', 'bd', 'black', 'heavy'])
BoldFontName(font_name) ==
    \E f \in { <<"b","o","l","d">>, <<"b","d">>, <<"b","l","a","c","k">>,
               <<"h","e","a","v","y">> } : Contains(Lower(font_name), f)

\* span_bbox is <<x0, y0, x1, y1>>
is_likely_heading(text, font_size, is_bold, page_width, span_bbox, avg_body_font_size_, header_footer_patterns_, font_name, page_num, document_page_count) ==
    LET cleaned_text == clean_text(text)
        span_x0 == span_bbox[1]
        span_x1 == span_bbox[3]
        width   == span_x1 - span_x0
        offset  == Abs(span_x0 + span_x1 - page_width)   \* twice the distance
        avg     == avg_body_font_size_
        words   == Len(Split(cleaned_text))
        boldish == is_bold \/ BoldFontName(font_name)
    IN  \* lines 148-149
        IF Len(cleaned_text) < 3 THEN FALSE
        \* lines 152-153
        ELSE IF IsListMarker(cleaned_text) THEN FALSE
        \* lines 156-159
        ELSE IF IsNumberOnly(cleaned_text) \/ IsLetterOnly(cleaned_text)
                   \/ IsRomanOnly(cleaned_text) THEN FALSE
        \* lines 162-163
        ELSE IF IsSeparatorRun(cleaned_text) THEN FALSE
        \* lines 166-168
        ELSE IF \E pattern \in header_footer_patterns_ :
                    ContainsIgnoreCase(cleaned_text, pattern) THEN FALSE
        \* lines 171-172
        ELSE IF ContainsUrl(cleaned_text) THEN FALSE
        \* lines 179-183
        ELSE IF /\ IsFormLabel(cleaned_text)
                /\ 2 * width < page_width
                /\ 5 * span_x0 < page_width
                /\ avg # 0 /\ Abs(font_size - avg) < 5 THEN FALSE
        \* lines 187-189
        ELSE IF /\ words <= 3 /\ ~is_bold
                /\ avg # 0 /\ 10 * font_size < 12 * avg THEN FALSE
        \* lines 193-200
        ELSE IF /\ document_page_count = 1
                /\ 10 * font_size > 15 * avg
                /\ 10 * width > 4 * page_width
                /\ 5 * offset < 2 * page_width
                /\ ~IsNumberedStart(cleaned_text) THEN FALSE
        \* lines 206-210
        ELSE IF /\ page_width > 500
                /\ 100 * width < 45 * page_width
                /\ 5 * span_x0 > page_width
                /\ ~is_bold
                /\ avg # 0 /\ 10 * font_size <= 13 * avg THEN FALSE
        \* lines 214-216
        ELSE IF IsNumberedStart(cleaned_text) /\ boldish THEN TRUE
        \* lines 220-221
        ELSE IF avg # 0 /\ 10 * font_size < 11 * avg THEN FALSE
        \* lines 224-229
        ELSE IF boldish /\ 10 * font_size >= 11 * avg
             THEN ~(/\ words > 8
                    /\ 10 * font_size <= 13 * avg
                    /\ 10 * span_x0 < page_width)
        \* lines 232-239
        ELSE IF 10 * font_size > 13 * avg
             THEN \/ 10 * width < 9 * page_width /\ 10 * offset < 6 * page_width
                  \/ 100 * span_x0 < 15 * page_width
        \* line 241
        ELSE FALSE

----------------------------------------------------------------------------
\* extract_outline_from_pdf, lines 254-282 and 387-457: the header/footer
\* pre-pass, the body font size and the classification of the lines. A line
\* is [text, y0, x0, x1, size, font] with one span; every page has the same
\* width and height.

MaxScanPages == 2       \* pages of a document
MaxPageLines == 2       \* lines of a page

PageWidth == 600        \* page.rect.width
PageHeight == 800       \* page.rect.height

\* a running header, a body line, two numbered lines, a plain heading
DocLines ==
    { [text |-> <<"R","e","p","o","r","t"," ","1"," ","2">>,
       y0 |-> 20, x0 |-> 50, x1 |-> 300, size |-> 240,
       font |-> <<"A","r","i","a","l","-","B","o","l","d">>],
      [text |-> <<"P","l","a","i","n"," ","b","o","d","y"," ","t","e","x","t">>,
       y0 |-> 300, x0 |-> 50, x1 |-> 550, size |-> 100,
       font |-> <<"A","r","i","a","l">>],
      [text |-> <<"1",".","1"," ","S","c","o","p","e"," ","o","f"," ",
                  "W","o","r","k"," ","I","t","e","m","s">>,
       y0 |-> 400, x0 |-> 200, x1 |-> 400, size |-> 100,
       font |-> <<"A","r","i","a","l","-","B","d">>],
      [text |-> <<"1","."," ","S","c","o","p","e"," ","o","f"," ",
                  "W","o","r","k"," ","I","t","e","m","s">>,
       y0 |-> 500, x0 |-> 50, x1 |-> 550, size |-> 100,
       font |-> <<"A","r","i","a","l","-","B","o","l","d">>],
      [text |-> <<"S","c","o","p","e">>,
       y0 |-> 760, x0 |-> 50, x1 |-> 250, size |-> 180,
       font |-> <<"A","r","i","a","l","-","B","o","l","d">>] }

DocPages == UNION {[1..n -> DocLines] : n \in 0..MaxPageLines}
Documents == UNION {[1..n -> DocPages] : n \in 1..MaxScanPages}

\* line 268: clean_text of the joined span texts
LineText(line) == clean_text(line.text)

\* lines 271-273
IsHeaderFooterCandidate(line_text) ==
    /\ Len(line_text) > 3
    /\ ~IsNumberOnly(line_text)
    /\ ~is_garbled_text(line_text)
    /\ ~IsSeparatorRun(line_text)
    /\ ~ContainsUrl(line_text)

\* line 274, the thresholds of lines 259-260
InMargin(line) == 10 * line.y0 < PageHeight \/ 10 * line.y0 > 9 * PageHeight

\* lines 265-275 on the lines of one page from the i-th on
RECURSIVE CountMarginLines(_, _, _)
CountMarginLines(counts, lines, i) ==
    IF i > Len(lines) THEN counts
    ELSE LET t == LineText(lines[i])
         IN  IF IsHeaderFooterCandidate(t) /\ InMargin(lines[i])
             THEN CountMarginLines(
                      IF t \in DOMAIN counts
                      THEN [counts EXCEPT ![t] = @ + 1]
                      ELSE counts @@ (t :> 1),
                      lines, i + 1)
             ELSE CountMarginLines(counts, lines, i + 1)

\* lines 277-280: count > document.page_count * 0.5
RecordedPatterns(counts, page_count) ==
    {t \in DOMAIN counts : 2 * counts[t] > page_count}

\* the sizes of all spans in document order (lines 390-398)
RECURSIVE AllSizes(_, _)
AllSizes(doc, p) ==
    IF p > Len(doc) THEN <<>>
    ELSE [i \in 1..Len(doc[p]) |-> doc[p][i].size] \o AllSizes(doc, p + 1)

\* max(d, key=d.get) over the sizes in F: the most frequent, the first
\* inserted among equals
MostCommonSize(sizes, F) ==
    LET count(fs) == Cardinality({i \in 1..Len(sizes) : sizes[i] = fs})
        first(fs) == SetMin({i \in 1..Len(sizes) : sizes[i] = fs})
    IN  CHOOSE fs \in F :
            \A g \in F : \/ count(fs) > count(g)
                         \/ count(fs) = count(g) /\ first(fs) <= first(g)

\* lines 400-420
BodyFontSize(doc) ==
    LET sizes == AllSizes(doc, 1)
        all   == {sizes[i] : i \in 1..Len(sizes)}
        body  == {fs \in all : fs >= 90 /\ fs < 200}
        wide  == {fs \in all : fs >= 80 /\ fs < 300}
    IN  IF all = {} THEN 100
        ELSE IF body # {} THEN MostCommonSize(sizes, body)
        ELSE IF wide # {} THEN MostCommonSize(sizes, wide)
        ELSE MostCommonSize(sizes, all)

\* line 444
FontIsBold(font) ==
    \E f \in { <<"b","o","l","d">>, <<"b","l","a","c","k">>,
               <<"h","e","a","v","y">> } : Contains(Lower(font), f)

\* lines 434-449: the line is accepted as a heading candidate
LineAccepted(line, p, avg, patterns, page_count) ==
    LET full_line_text_cleaned == LineText(line)
    IN  /\ full_line_text_cleaned # <<>>
        /\ ~is_garbled_text(full_line_text_cleaned)
        /\ is_likely_heading(full_line_text_cleaned, line.size,
                             FontIsBold(line.font), PageWidth,
                             <<line.x0, line.y0, line.x1, line.y0 + 12>>,
                             avg, patterns, line.font, p, page_count)

\* lines 431-457 on the lines of page p from the i-th on
RECURSIVE AcceptedLines(_, _, _, _, _, _)
AcceptedLines(lines, i, p, avg, patterns, page_count) ==
    IF i > Len(lines) THEN <<>>
    ELSE (IF LineAccepted(lines[i], p, avg, patterns, page_count)
          THEN <<[text |-> LineText(lines[i]), size |-> lines[i].size,
                  page |-> p, y0 |-> lines[i].y0]>>
          ELSE <<>>)
         \o AcceptedLines(lines, i + 1, p, avg, patterns, page_count)

\* one iteration of the loop of line 262
PrepassPage ==
    /\ linePc = "prepass"
    /\ cur_page_num < Len(pages)
    /\ header_footer_candidates' =
          CountMarginLines(header_footer_candidates, pages[cur_page_num + 1], 1)
    /\ cur_page_num' = cur_page_num + 1
    /\ UNCHANGED <<toc, pages, linePc, header_footer_patterns,
                   avg_body_font_size, cleanVars, outlineVars, titleVars,
                   batchVars>>

\* lines 277-280
RecordPatterns ==
    /\ linePc = "prepass"
    /\ cur_page_num = Len(pages)
    /\ header_footer_patterns' =
          RecordedPatterns(header_footer_candidates, Len(pages))
    /\ linePc' = "stats"
    /\ UNCHANGED <<toc, pages, cur_page_num, header_footer_candidates,
                   avg_body_font_size, cleanVars,
                   outlineVars, titleVars, batchVars>>

\* lines 387-420
ComputeBodySize ==
    /\ linePc = "stats"
    /\ avg_body_font_size' = BodyFontSize(pages)
    /\ cur_page_num' = 0
    /\ linePc' = "classify"
    /\ UNCHANGED <<toc, pages, header_footer_candidates,
                   header_footer_patterns, cleanVars, outlineVars, titleVars,
                   batchVars>>

\* one iteration of the loop of line 425
ClassifyPage ==
    /\ linePc = "classify"
    /\ cur_page_num < Len(pages)
    /\ potential_headings_with_sizes' =
          potential_headings_with_sizes \o
          AcceptedLines(pages[cur_page_num + 1], 1, cur_page_num,
                        avg_body_font_size, header_footer_patterns, Len(pages))
    /\ cur_page_num' = cur_page_num + 1
    /\ linePc' = IF cur_page_num' = Len(pages) THEN "done" ELSE "classify"
    /\ UNCHANGED <<toc, pages, header_footer_candidates,
                   header_footer_patterns, avg_body_font_size, pc, title,
                   h_level_map, idx, outline, seen_headings_tracker,
                   last_added_heading_level_val, result, cleanVars, titleVars,
                   batchVars>>

LinesNext == PrepassPage \/ RecordPatterns \/ ComputeBodySize \/ ClassifyPage

\* C16: no line accepted as a heading candidate has a text (as it would be
\* emitted) that contains a recorded suppression pattern, whatever the case
\* of the letters.
NoSuppressedLineAccepted ==
    linePc = "done" =>
        \A i \in 1..Len(potential_headings_with_sizes) :
            \A pattern \in header_footer_patterns :
                ~ContainsIgnoreCase(potential_headings_with_sizes[i].text,
                                    pattern)

PatternsRecorded == linePc \in {"stats", "classify", "done"}

\* C17: a line text that is not garbled, not a number and not a separator
\* run is a recorded pattern if and only if it stands in the top or bottom
\* tenth of more than half of the pages, each page counted once.
PatternIffOnMostPages ==
    PatternsRecorded =>
        \A p \in 1..Len(pages) : \A i \in 1..Len(pages[p]) :
            LET t == LineText(pages[p][i])
                margin_pages ==
                    {q \in 1..Len(pages) :
                        \E j \in 1..Len(pages[q]) :
                            InMargin(pages[q][j]) /\ LineText(pages[q][j]) = t}
            IN  (t # <<>> /\ ~is_garbled_text(t) /\ ~IsNumberOnly(t)
                    /\ ~IsSeparatorRun(t))
                  => (t \in header_footer_patterns
                        <=> 2 * Cardinality(margin_pages) > Len(pages))

\* C18: a line that passes the immediate rejections (too short, a bare
\* enumerator, a separator run, a suppressed header/footer, a URL, a
\* body-sized form label, a short non-bold label), whose text starts with a
\* section number ("1.", "1.1", "A.", "Chapter ") and whose font is bold by
\* flag or by name, is accepted by is_likely_heading.
NumberedBoldAccepted ==
    linePc \in {"classify", "done"} =>
        \A p \in 1..Len(pages) : \A i \in 1..Len(pages[p]) :
            LET line  == pages[p][i]
                t     == LineText(line)
                bold  == FontIsBold(line.font)
                avg   == avg_body_font_size
                rejected_at_once ==
                    \/ Len(t) < 3
                    \/ IsListMarker(t) \/ IsNumberOnly(t) \/ IsLetterOnly(t)
                    \/ IsRomanOnly(t) \/ IsSeparatorRun(t)
                    \/ \E pattern \in header_footer_patterns :
                           ContainsIgnoreCase(t, pattern)
                    \/ ContainsUrl(t)
                    \/ /\ IsFormLabel(t)
                       /\ 2 * (line.x1 - line.x0) < PageWidth
                       /\ 5 * line.x0 < PageWidth
                       /\ avg # 0 /\ Abs(line.size - avg) < 5
                    \/ /\ Len(Split(t)) <= 3 /\ ~bold
                       /\ avg # 0 /\ 10 * line.size < 12 * avg
                section_numbered ==
                    \/ IsNumberedStart(t)
                    \/ IsFormLabel(t)
                    \/ StartsWith(t, <<"C","h","a","p","t","e","r"," ">>)
            IN  (~rejected_at_once /\ section_numbered
                    /\ (bold \/ BoldFontName(line.font)))
                  => is_likely_heading(t, line.size, bold, PageWidth,
                                       <<line.x0, line.y0, line.x1, line.y0 + 12>>,
                                       avg, header_footer_patterns, line.font,
                                       p - 1, Len(pages))

----------------------------------------------------------------------------
\* The specifications. Each one runs one part of the program; the variables
\* of the other parts stay at rest.

\* The loop of lines 425-457 starts, the title resolved.
Init ==
    /\ pc = "collect"
    /\ title \in OutlineTitles
    /\ potential_headings_with_sizes = <<>>
    /\ h_level_map = <<>>
    /\ idx = 0
    /\ outline = <<>>
    /\ seen_headings_tracker = {}
    /\ last_added_heading_level_val = 0
    /\ result = [title |-> <<>>, outline |-> <<>>]
    /\ cleanPc = "off"
    /\ cleanIn = <<>>
    /\ cleanOnce = <<>>
    /\ cleanTwice = <<>>
    /\ titlePc = "off"
    /\ doc_page_count = 0
    /\ visual_text = <<>>
    /\ metadata_title = <<>>
    /\ first_page_lines = <<>>
    /\ visual_title_candidate = <<>>
    /\ resolved_title = <<>>
    /\ consulted = {}
    /\ batchPc = "off"
    /\ pdf_files = <<>>
    /\ pdf_idx = 0
    /\ step = 0
    /\ cur_title = <<>>
    /\ cur_outline = <<>>
    /\ fn_result = [title |-> <<>>, outline |-> <<>>]
    /\ written = <<>>
    /\ failed_at = <<>>
    /\ toc = <<>>
    /\ pages = <<>>
    /\ linePc = "off"
    /\ cur_page_num = 0
    /\ header_footer_candidates = <<>>
    /\ header_footer_patterns = {}
    /\ avg_body_font_size = 0

\* clean_text is about to be applied to a string.
InitClean ==
    /\ cleanPc = "raw"
    /\ cleanIn \in CleanInputs
    /\ cleanOnce = <<>>
    /\ cleanTwice = <<>>
    /\ pc = "off"
    /\ title = <<>>
    /\ potential_headings_with_sizes = <<>>
    /\ h_level_map = <<>>
    /\ idx = 0
    /\ outline = <<>>
    /\ seen_headings_tracker = {}
    /\ last_added_heading_level_val = 0
    /\ result = [title |-> <<>>, outline |-> <<>>]
    /\ titlePc = "off"
    /\ doc_page_count = 0
    /\ visual_text = <<>>
    /\ metadata_title = <<>>
    /\ first_page_lines = <<>>
    /\ visual_title_candidate = <<>>
    /\ resolved_title = <<>>
    /\ consulted = {}
    /\ batchPc = "off"
    /\ pdf_files = <<>>
    /\ pdf_idx = 0
    /\ step = 0
    /\ cur_title = <<>>
    /\ cur_outline = <<>>
    /\ fn_result = [title |-> <<>>, outline |-> <<>>]
    /\ written = <<>>
    /\ failed_at = <<>>
    /\ toc = <<>>
    /\ pages = <<>>
    /\ linePc = "off"
    /\ cur_page_num = 0
    /\ header_footer_candidates = <<>>
    /\ header_footer_patterns = {}
    /\ avg_body_font_size = 0

\* line 286: the document is open; a document without pages has no
\* first page.
InitTitle ==
    /\ titlePc = "visual"
    /\ doc_page_count \in TitlePageCounts
    /\ visual_text \in VisualTexts
    /\ metadata_title \in MetadataTitles
    /\ first_page_lines \in UNION {[1..n -> FirstPageLines] : n \in 0..MaxTitleLines}
    /\ doc_page_count = 0 => (visual_text = <<>> /\ first_page_lines = <<>>)
    /\ visual_title_candidate = <<>>
    /\ resolved_title = <<>>
    /\ consulted = {}
    /\ pc = "off"
    /\ title = <<>>
    /\ potential_headings_with_sizes = <<>>
    /\ h_level_map = <<>>
    /\ idx = 0
    /\ outline = <<>>
    /\ seen_headings_tracker = {}
    /\ last_added_heading_level_val = 0
    /\ result = [title |-> <<>>, outline |-> <<>>]
    /\ cleanPc = "off"
    /\ cleanIn = <<>>
    /\ cleanOnce = <<>>
    /\ cleanTwice = <<>>
    /\ batchPc = "off"
    /\ pdf_files = <<>>
    /\ pdf_idx = 0
    /\ step = 0
    /\ cur_title = <<>>
    /\ cur_outline = <<>>
    /\ fn_result = [title |-> <<>>, outline |-> <<>>]
    /\ written = <<>>
    /\ failed_at = <<>>
    /\ toc = <<>>
    /\ pages = <<>>
    /\ linePc = "off"
    /\ cur_page_num = 0
    /\ header_footer_candidates = <<>>
    /\ header_footer_patterns = {}
    /\ avg_body_font_size = 0

\* line 583: the loop over the PDF files starts.
InitBatch ==
    /\ batchPc = "loop"
    /\ pdf_files \in [1..NumDocs -> Docs]
    /\ pdf_idx = 1
    /\ step = 0
    /\ cur_title = <<>>
    /\ cur_outline = <<>>
    /\ fn_result = [title |-> <<>>, outline |-> <<>>]
    /\ written = <<>>
    /\ failed_at = <<>>
    /\ pc = "off"
    /\ title = <<>>
    /\ potential_headings_with_sizes = <<>>
    /\ h_level_map = <<>>
    /\ idx = 0
    /\ outline = <<>>
    /\ seen_headings_tracker = {}
    /\ last_added_heading_level_val = 0
    /\ result = [title |-> <<>>, outline |-> <<>>]
    /\ cleanPc = "off"
    /\ cleanIn = <<>>
    /\ cleanOnce = <<>>
    /\ cleanTwice = <<>>
    /\ titlePc = "off"
    /\ doc_page_count = 0
    /\ visual_text = <<>>
    /\ metadata_title = <<>>
    /\ first_page_lines = <<>>
    /\ visual_title_candidate = <<>>
    /\ resolved_title = <<>>
    /\ consulted = {}
    /\ toc = <<>>
    /\ pages = <<>>
    /\ linePc = "off"
    /\ cur_page_num = 0
    /\ header_footer_candidates = <<>>
    /\ header_footer_patterns = {}
    /\ avg_body_font_size = 0

\* The loop of lines 425-457 has ended on a document with bookmarks.
InitDoc ==
    /\ pc = "collect"
    /\ title = <<>>
    /\ potential_headings_with_sizes \in DocHeadingLists
    /\ toc \in Tocs
    /\ h_level_map = <<>>
    /\ idx = 0
    /\ outline = <<>>
    /\ seen_headings_tracker = {}
    /\ last_added_heading_level_val = 0
    /\ result = [title |-> <<>>, outline |-> <<>>]
    /\ cleanPc = "off"
    /\ cleanIn = <<>>
    /\ cleanOnce = <<>>
    /\ cleanTwice = <<>>
    /\ titlePc = "off"
    /\ doc_page_count = 0
    /\ visual_text = <<>>
    /\ metadata_title = <<>>
    /\ first_page_lines = <<>>
    /\ visual_title_candidate = <<>>
    /\ resolved_title = <<>>
    /\ consulted = {}
    /\ batchPc = "off"
    /\ pdf_files = <<>>
    /\ pdf_idx = 0
    /\ step = 0
    /\ cur_title = <<>>
    /\ cur_outline = <<>>
    /\ fn_result = [title |-> <<>>, outline |-> <<>>]
    /\ written = <<>>
    /\ failed_at = <<>>
    /\ pages = <<>>
    /\ linePc = "off"
    /\ cur_page_num = 0
    /\ header_footer_candidates = <<>>
    /\ header_footer_patterns = {}
    /\ avg_body_font_size = 0

\* line 254: the document is open, the pre-pass starts.
InitLines ==
    /\ linePc = "prepass"
    /\ pages \in Documents
    /\ cleanPc = "off"
    /\ cleanIn = <<>>
    /\ cleanOnce = <<>>
    /\ cleanTwice = <<>>
    /\ pc = "off"
    /\ title = <<>>
    /\ potential_headings_with_sizes = <<>>
    /\ h_level_map = <<>>
    /\ idx = 0
    /\ outline = <<>>
    /\ seen_headings_tracker = {}
    /\ last_added_heading_level_val = 0
    /\ result = [title |-> <<>>, outline |-> <<>>]
    /\ titlePc = "off"
    /\ doc_page_count = 0
    /\ visual_text = <<>>
    /\ metadata_title = <<>>
    /\ first_page_lines = <<>>
    /\ visual_title_candidate = <<>>
    /\ resolved_title = <<>>
    /\ consulted = {}
    /\ batchPc = "off"
    /\ pdf_files = <<>>
    /\ pdf_idx = 0
    /\ step = 0
    /\ cur_title = <<>>
    /\ cur_outline = <<>>
    /\ fn_result = [title |-> <<>>, outline |-> <<>>]
    /\ written = <<>>
    /\ failed_at = <<>>
    /\ toc = <<>>
    /\ cur_page_num = 0
    /\ header_footer_candidates = <<>>
    /\ header_footer_patterns = {}
    /\ avg_body_font_size = 0

vars == <<cleanVars, outlineVars, titleVars, batchVars, docVars>>

Spec == Init /\ [][Next]_vars

SpecClean == InitClean /\ [][CleanNext]_vars

SpecTitle == InitTitle /\ [][TitleNext]_vars

SpecBatch == InitBatch /\ [][BatchNext]_vars

SpecDoc == InitDoc /\ [][DocNext]_vars

SpecLines == InitLines /\ [][LinesNext]_vars

====
